---- MODULE Spec2Model ----
(***************************************************************************)
(* Replication endpoints of zrepl (package endpoint): the sending and the  *)
(* receiving endpoint, the batch snapshot destruction, and the server-side *)
(* dispatcher, modelled over an abstract ZFS backend.                      *)
(*                                                                         *)
(* Every endpoint method is an operator that computes, from the endpoint   *)
(* configuration, the backend state and the request, the method's return   *)
(* values, the backend calls it made (in order) and the backend state it   *)
(* leaves.  An action applies one method and records the call in `last`.   *)
(***************************************************************************)
EXTENDS Integers, Sequences, FiniteSets, TLC

VARIABLES
    FSFilter,    \* Sender.FSFilter: dataset path -> "pass" | "deny" | "err"
    replicated,  \* backend: set of <<filesystem, snapshot>> carrying the replicated marker
    fsmap,       \* Receiver.fsmap: requested path -> local path | Nil | MapErr
    datasets,    \* backend: local path -> "absent" | "placeholder" | "real"
    pre,         \* `datasets` as it was when the last call started
    ep,          \* Handler.ep: the endpoint bound to the dispatcher
    last,        \* the last call: request, return values, backend calls, stream closes
    tasks,       \* concurrent Receive calls: task -> where it is in Receiver.Receive
    sem,         \* the gate: its free slots
    acq,         \* the gate's users: acquirer -> where it is between Acquire and Release
    now,         \* TestSemaphore: time since `begin`, in units of sleepTime
    acquisitions \* TestSemaphore: the counters beforeT and afterT

vars == <<FSFilter, replicated, fsmap, datasets, pre, ep, last,
          tasks, sem, acq, now, acquisitions>>

\* The endpoint's state, and the state of what runs beside it.
epVars == <<FSFilter, replicated, fsmap, datasets, pre, ep, last>>
semVars == <<sem, acq, now, acquisitions>>

\* No concurrent Receive is running and no gate is in use.
NoTasks == tasks = <<>>
NoGate ==
    /\ sem = 0
    /\ acq = <<>>
    /\ now = 0
    /\ acquisitions = [beforeT |-> 0, afterT |-> 0]

----------------------------------------------------------------------------
(* Bounds *)

MaxDepth == 4    \* deepest local dataset path, in components
MaxItems == 2    \* longest DestroySnapshots batch
Capacity == 2    \* N, the capacity of the gate (TestSemaphore runs with 6)
NumAcquirers == 4  \* M, the operations using the gate (TestSemaphore runs 10)

----------------------------------------------------------------------------
(* Values *)

Nil == "nil"                \* Go's nil error
NoStream == "nil stream"    \* Go's nil io.ReadCloser
NilRes == <<>>              \* a nil result; a non-nil result r is <<r>>
NoPath == <<>>              \* no dataset path
Malformed == <<>>           \* a filesystem string zfs.NewDatasetPath rejects

ErrPath       == "invalid dataset path"
ErrFilter     == "filter error"
ErrFiltered   == "FilteredError"
ErrMap        == "map error"
ErrDenied     == "access to filesystem denied"
ErrRecvDenied == "receive to filesystem denied"
ErrBackend    == "backend error"
ErrNotSnap    == "version is not a snapshot"
ErrConvert    == "cannot convert version"
ErrOpcode     == "unknown opcode"
ErrNoHandler  == "no handler for given endpoint"
ErrDecode     == "decode error"
ErrEncode     == "encode error"

SnapNames == {"s1", "s2"}

\* Dataset paths are sequences of components.
Chain(d) == [i \in 1..d |-> IF i = 1 THEN "pool" ELSE "a"]
Side == <<"pool", "b">>
LocalPaths == {Chain(d) : d \in 1..MaxDepth} \cup {Side}

Parent(p) == SubSeq(p, 1, Len(p) - 1)
IsPrefix(a, p) == Len(a) <= Len(p) /\ SubSeq(p, 1, Len(a)) = a
Ancestors(p) == {SubSeq(p, 1, d) : d \in 1..(Len(p) - 1)}

\* zfs.NewDatasetPath
NewDatasetPath(fs) ==
    IF fs = Malformed THEN [dp |-> NoPath, err |-> ErrPath]
    ELSE [dp |-> fs, err |-> Nil]

\* One backend invocation, as recorded in a call's trace.
\* `fault` marks a failure that does not come from the state of the dataset.
BackendCall(fn, path, arg, ok) ==
    [fn |-> fn, path |-> path, arg |-> arg, ok |-> ok, fault |-> FALSE]
FaultyCall(fn, path, arg, ok, fault) ==
    [fn |-> fn, path |-> path, arg |-> arg, ok |-> ok, fault |-> fault]

\* What a Sender method returns and leaves behind: the error, the result, the
\* stream handed to the caller, the backend calls made, the replicated markers.
SRet(err, res, stream, calls, repl) ==
    [err |-> err, res |-> res, stream |-> stream, calls |-> calls, replicated |-> repl]

\* What a Receiver method returns and leaves behind: the error, the result, the
\* backend calls made, the datasets, and how often it closed the stream it got.
RRet(err, res, calls, ds, closes) ==
    [err |-> err, res |-> res, calls |-> calls, datasets |-> ds, closes |-> closes]

\* A request, with the fields its call does not use left at their zero value.
Req(fs, snapshots, snapshot, opcode) ==
    [fs |-> fs, snapshots |-> snapshots, snapshot |-> snapshot, opcode |-> opcode]

----------------------------------------------------------------------------
(* Sender *)

SenderFS == {<<"zroot">>, <<"zroot", "a">>}
SenderInputs == SenderFS \cup {Malformed}

\* pdu.FilesystemVersion items of a DestroySnapshots request.  Creation is the
\* field whose parse decides whether ZFSFilesystemVersion() succeeds.
VersionTypes == {"Snapshot", "Bookmark"}
Item(type, name, creation) == [Type |-> type, Name |-> name, Creation |-> creation]
Items == {Item("Snapshot", "s1", "valid"), Item("Snapshot", "s2", "valid"),
          Item("Snapshot", "s1", "invalid"), Item("Bookmark", "s2", "valid")}
Batches == UNION {[1..n -> Items] : n \in 0..MaxItems}

\* fsv.ZFSFilesystemVersion(): pdu version to zfs version, or an error.
ZFSFilesystemVersion(fsv) ==
    IF fsv.Creation = "invalid" THEN [v |-> [Type |-> fsv.Type, Name |-> ""], err |-> ErrConvert]
    ELSE [v |-> [Type |-> fsv.Type, Name |-> fsv.Name], err |-> Nil]

\* pdu.FilesystemVersionFromZFS: zfs version back to the pdu version of a result.
FilesystemVersionFromZFS(v) == [Type |-> v.Type, Name |-> v.Name]

\* First loop of doDestroySnapshots: the index of the first item that is
\* rejected, 0 when every item is accepted.
FirstRejected(snaps) ==
    LET bad == {i \in 1..Len(snaps) :
                   \/ snaps[i].Type # "Snapshot"
                   \/ ZFSFilesystemVersion(snaps[i]).err # Nil}
    IN IF bad = {} THEN 0 ELSE CHOOSE i \in bad : \A j \in bad : i <= j

\* The error the first loop returns for item i.
RejectError(fsv) ==
    IF fsv.Type # "Snapshot" THEN ErrNotSnap ELSE ZFSFilesystemVersion(fsv).err

\* Second loop of doDestroySnapshots, iteration i: the result for item i.
\* `fails` is the set of indices whose zfs.ZFSDestroyFilesystemVersion fails.
DestroyResult(snaps, fails, i) ==
    [Snapshot |-> FilesystemVersionFromZFS(ZFSFilesystemVersion(snaps[i]).v),
     Error    |-> IF i \in fails THEN ErrBackend ELSE ""]

\* The backend destroy of item i, as it appears in the call trace.
DestroyCall(lp, snaps, fails, i) ==
    BackendCall("ZFSDestroyFilesystemVersion", lp, snaps[i].Name, i \notin fails)

\* The items 1..n destroyed in order, with one result each.
Destroyed(lp, snaps, fails, n) ==
    [res   |-> [i \in 1..n |-> DestroyResult(snaps, fails, i)],
     calls |-> [i \in 1..n |-> DestroyCall(lp, snaps, fails, i)]]

\* A variant that stops destroying at the first backend failure.
doDestroySnapshots_AbortOnError(lp, snaps, fails) ==
    LET rej == FirstRejected(snaps)
        hit == {i \in 1..Len(snaps) : i \in fails}
        n == IF hit = {} THEN Len(snaps) ELSE CHOOSE i \in hit : \A j \in hit : i <= j
        d == Destroyed(lp, snaps, fails, n)
    IN IF rej # 0
       THEN [err |-> RejectError(snaps[rej]), res |-> NilRes, calls |-> <<>>]
       ELSE [err |-> Nil, res |-> <<[Results |-> d.res]>>, calls |-> d.calls]

\* A variant that validates and destroys in one loop, item by item.
doDestroySnapshots_SingleLoop(lp, snaps, fails) ==
    LET rej == FirstRejected(snaps)
        n == IF rej = 0 THEN Len(snaps) ELSE rej - 1
        d == Destroyed(lp, snaps, fails, n)
    IN IF rej # 0
       THEN [err |-> RejectError(snaps[rej]), res |-> NilRes, calls |-> d.calls]
       ELSE [err |-> Nil, res |-> <<[Results |-> d.res]>>, calls |-> d.calls]

\* doDestroySnapshots(ctx, lp, snaps): validate and convert every item, then
\* destroy every item and collect one result per item.
doDestroySnapshots(lp, snaps, fails) ==
    LET rej == FirstRejected(snaps)
        d == Destroyed(lp, snaps, fails, Len(snaps))
    IN IF rej # 0
       THEN [err |-> RejectError(snaps[rej]), res |-> NilRes, calls |-> <<>>]
       ELSE [err |-> Nil, res |-> <<[Results |-> d.res]>>, calls |-> d.calls]

FilterCheck_DenyPasses(filter, dp) ==
    IF filter[dp] = "err" THEN ErrFilter ELSE Nil

\* The outcome of p.FSFilter.Filter(dp) followed by the `!pass` test.
FilterCheck(filter, dp) ==
    CASE filter[dp] = "err"  -> ErrFilter
      [] filter[dp] = "deny" -> ErrFiltered
      [] OTHER               -> Nil

\* Sender.ListFilesystems: zfs.ZFSListMapping(p.FSFilter), then one pdu.Filesystem
\* per listed path.
SenderListFilesystems(filter, repl, bk) ==
    LET c == <<BackendCall("ZFSListMapping", NoPath, "", bk)>>
    IN IF ~bk THEN SRet(ErrBackend, NilRes, NoStream, c, repl)
       ELSE SRet(Nil, <<{p \in SenderFS : filter[p] = "pass"}>>, NoStream, c, repl)

\* Sender.ListFilesystemVersions
SenderListFilesystemVersions(filter, repl, fs, bk) ==
    LET n == NewDatasetPath(fs) IN
    IF n.err # Nil THEN SRet(n.err, NilRes, NoStream, <<>>, repl)
    ELSE LET f == FilterCheck(filter, n.dp) IN
    IF f # Nil THEN SRet(f, NilRes, NoStream, <<>>, repl)
    ELSE LET c == <<BackendCall("ZFSListFilesystemVersions", n.dp, "", bk)>> IN
    IF ~bk THEN SRet(ErrBackend, NilRes, NoStream, c, repl)
    ELSE SRet(Nil, <<"versions">>, NoStream, c, repl)

\* Sender.Send: dry-run for the size, then the real send stream.
SenderSend(filter, repl, fs, dryOk, sendOk) ==
    LET n == NewDatasetPath(fs) IN
    IF n.err # Nil THEN SRet(n.err, NilRes, NoStream, <<>>, repl)
    ELSE LET f == FilterCheck(filter, n.dp) IN
    IF f # Nil THEN SRet(f, NilRes, NoStream, <<>>, repl)
    ELSE LET c1 == <<BackendCall("ZFSSendDry", n.dp, "", dryOk)>> IN
    IF ~dryOk THEN SRet(ErrBackend, NilRes, NoStream, c1, repl)
    ELSE LET c2 == Append(c1, BackendCall("ZFSSend", n.dp, "", sendOk)) IN
    IF ~sendOk THEN SRet(ErrBackend, NilRes, NoStream, c2, repl)
    ELSE SRet(Nil, <<"SendRes">>, "sendStream", c2, repl)

\* Sender.DestroySnapshots
SenderDestroySnapshots(filter, repl, fs, snaps, fails) ==
    LET n == NewDatasetPath(fs) IN
    IF n.err # Nil THEN SRet(n.err, NilRes, NoStream, <<>>, repl)
    ELSE LET f == FilterCheck(filter, n.dp) IN
    IF f # Nil THEN SRet(f, NilRes, NoStream, <<>>, repl)
    ELSE LET d == doDestroySnapshots(n.dp, snaps, fails)
         IN SRet(d.err, d.res, NoStream, d.calls, repl)

Opcodes == {"Get", "SetReplicated", "Other"}

SenderSnapshotReplicationStatus_SetNotWritten(filter, repl, fs, snap, opc, bk) ==
    LET n == NewDatasetPath(fs) IN
    IF n.err # Nil THEN SRet(n.err, NilRes, NoStream, <<>>, repl)
    ELSE LET f == FilterCheck(filter, n.dp) IN
    IF f # Nil THEN SRet(f, NilRes, NoStream, <<>>, repl)
    ELSE CASE opc = "Get" ->
                LET c == <<BackendCall("ZFSGetReplicatedProperty", n.dp, snap, bk)>> IN
                IF ~bk THEN SRet(ErrBackend, NilRes, NoStream, c, repl)
                ELSE SRet(Nil, <<[Replicated |-> <<n.dp, snap>> \in repl]>>, NoStream, c, repl)
           [] opc = "SetReplicated" ->
                SRet(Nil, <<[Replicated |-> TRUE]>>, NoStream, <<>>, repl)
           [] OTHER -> SRet(ErrOpcode, NilRes, NoStream, <<>>, repl)

\* Sender.SnapshotReplicationStatus
SenderSnapshotReplicationStatus(filter, repl, fs, snap, opc, bk) ==
    LET n == NewDatasetPath(fs) IN
    IF n.err # Nil THEN SRet(n.err, NilRes, NoStream, <<>>, repl)
    ELSE LET f == FilterCheck(filter, n.dp) IN
    IF f # Nil THEN SRet(f, NilRes, NoStream, <<>>, repl)
    ELSE CASE opc = "Get" ->
                LET c == <<BackendCall("ZFSGetReplicatedProperty", n.dp, snap, bk)>> IN
                IF ~bk THEN SRet(ErrBackend, NilRes, NoStream, c, repl)
                ELSE SRet(Nil, <<[Replicated |-> <<n.dp, snap>> \in repl]>>, NoStream, c, repl)
           [] opc = "SetReplicated" ->
                LET c == <<BackendCall("ZFSSetReplicatedProperty", n.dp, snap, bk)>> IN
                IF ~bk THEN SRet(ErrBackend, NilRes, NoStream, c, repl)
                ELSE SRet(Nil, <<[Replicated |-> TRUE]>>, NoStream, c,
                          repl \cup {<<n.dp, snap>>})
           [] OTHER -> SRet(ErrOpcode, NilRes, NoStream, <<>>, repl)

----------------------------------------------------------------------------
(* Receiver *)

\* Requested (remote) paths: a root component the map decides on, then the
\* components the local path keeps.
RemoteRoots == {"r", "q"}
LocalRoot == <<"pool">>
RemotePaths == {<<x>> \o Tail(lp) : x \in RemoteRoots, lp \in LocalPaths}
ReceiverInputs == RemotePaths \cup {Malformed}

\* The local path a mapped request goes to.
LocalOf(p) == LocalRoot \o Tail(p)

\* e.fsmap.Map(p): a local path, no mapping, or an error.
Map(m, p) ==
    CASE m[p[1]] = "map" -> [lp |-> LocalOf(p), isNil |-> FALSE, err |-> Nil]
      [] m[p[1]] = "err" -> [lp |-> NoPath, isNil |-> TRUE, err |-> ErrMap]
      [] OTHER           -> [lp |-> NoPath, isNil |-> TRUE, err |-> Nil]

MapCheck_NoNilTest(m, p, denied) ==
    IF Map(m, p).err # Nil THEN [lp |-> NoPath, err |-> Map(m, p).err]
    ELSE [lp |-> LocalOf(p), err |-> Nil]

\* e.fsmap.Map(p) followed by the `lp == nil` test; `denied` is the error the
\* method returns for an unmapped path.
MapCheck(m, p, denied) ==
    LET r == Map(m, p) IN
    IF r.err # Nil THEN [lp |-> NoPath, err |-> r.err]
    ELSE IF r.isNil THEN [lp |-> NoPath, err |-> denied]
    ELSE [lp |-> r.lp, err |-> Nil]

\* Receiver.ListFilesystems: the existing local datasets that pass the inverse
\* map's filter, each mapped back to the path the peer knows it by.  invOk:
\* e.fsmapInv.Map succeeds.
ReceiverListFilesystems(m, ds, bk, invOk) ==
    LET c == <<BackendCall("ZFSListMapping", NoPath, "", bk)>>
        filtered == {lp \in LocalPaths : ds[lp] # "absent" /\ \E x \in RemoteRoots : m[x] = "map"}
    IN IF ~bk THEN RRet(ErrBackend, NilRes, c, ds, 0)
       ELSE IF filtered # {} /\ ~invOk THEN RRet(ErrMap, NilRes, c, ds, 0)
       ELSE RRet(Nil,
                 <<{<<x>> \o Tail(lp) : x \in {y \in RemoteRoots : m[y] = "map"}, lp \in filtered}>>,
                 c, ds, 0)

\* Receiver.ListFilesystemVersions
ReceiverListFilesystemVersions(m, ds, fs, bk) ==
    LET n == NewDatasetPath(fs) IN
    IF n.err # Nil THEN RRet(n.err, NilRes, <<>>, ds, 0)
    ELSE LET mc == MapCheck(m, n.dp, ErrDenied) IN
    IF mc.err # Nil THEN RRet(mc.err, NilRes, <<>>, ds, 0)
    ELSE LET c == <<BackendCall("ZFSListFilesystemVersions", mc.lp, "", bk)>> IN
    IF ~bk THEN RRet(ErrBackend, NilRes, c, ds, 0)
    ELSE RRet(Nil, <<"versions">>, c, ds, 0)

\* Receiver.DestroySnapshots
ReceiverDestroySnapshots(m, ds, fs, snaps, fails) ==
    LET n == NewDatasetPath(fs) IN
    IF n.err # Nil THEN RRet(n.err, NilRes, <<>>, ds, 0)
    ELSE LET mc == MapCheck(m, n.dp, ErrDenied) IN
    IF mc.err # Nil THEN RRet(mc.err, NilRes, <<>>, ds, 0)
    ELSE LET d == doDestroySnapshots(mc.lp, snaps, fails)
         IN RRet(d.err, d.res, d.calls, ds, 0)

\* zfs.ZFSGet(path, placeholder property) returns an error: the dataset does
\* not exist, or the read fails for another reason (`fault` is the path it
\* fails on, NoPath for none).
ProbeFails(ds, path, fault) == ds[path] = "absent" \/ path = fault

\* zfs.ZFSCreatePlaceholderFilesystem(path) returns an error: the dataset
\* exists already, or the creation fails for another reason.
CreateFails(ds, path, fault) == ds[path] # "absent" \/ path = fault

WalkResult(ds, calls, visitErr) == [datasets |-> ds, calls |-> calls, visitErr |-> visitErr]

VisitChildTree_StopAtExisting(probeOk, createOk) == ~probeOk /\ createOk

\* The visitor's return value for an ancestor (visitChildTree): true when the
\* probe succeeded or the placeholder was created, false when creation failed.
VisitChildTree(probeOk, createOk) == probeOk \/ createOk

NeedCreate_OnlyIfAbsent(ds, v, probeOk) == ds[v] = "absent"

\* Whether the visitor calls ZFSCreatePlaceholderFilesystem: on any probe error.
NeedCreate(ds, v, probeOk) == ~probeOk

VisitErr_Swallowed(create, createOk) == Nil

\* visitErr after the visitor ran on an ancestor: set when the placeholder
\* creation was tried and failed.
VisitErr(create, createOk) == IF create /\ ~createOk THEN ErrBackend ELSE Nil

\* f.WalkTopDown(visitor) on the forest that holds lp alone, from the node at
\* depth d (the root is at depth 1): the visitor of Receiver.Receive applied to
\* each node in turn, descending while it returns true.
RECURSIVE WalkTopDown(_, _, _, _, _, _)
WalkTopDown(lp, d, ds, calls, pf, cf) ==
    LET v == SubSeq(lp, 1, d) IN
    IF v = lp THEN WalkResult(ds, calls, Nil)
    ELSE LET probeOk == ~ProbeFails(ds, v, pf)
             c1 == Append(calls, FaultyCall("ZFSGet", v, "", probeOk, v = pf))
             create == NeedCreate(ds, v, probeOk)
             createOk == create /\ ~CreateFails(ds, v, cf)
             c2 == IF create
                   THEN Append(c1, FaultyCall("ZFSCreatePlaceholderFilesystem", v, "",
                                              createOk, v = cf))
                   ELSE c1
             ds2 == IF createOk THEN [ds EXCEPT ![v] = "placeholder"] ELSE ds
             visitErr == VisitErr(create, createOk)
         IN IF visitErr # Nil THEN WalkResult(ds2, c2, visitErr)
            ELSE IF VisitChildTree(probeOk, createOk)
                 THEN WalkTopDown(lp, d + 1, ds2, c2, pf, cf)
                 ELSE WalkResult(ds2, c2, Nil)

NeedForceRecv_IfExists(ds, lp, probeOk) == probeOk

NeedForceRecv_Always(ds, lp, probeOk) == TRUE

\* needForceRecv: the property read on the target succeeded and
\* zfs.IsPlaceholder says the target is a placeholder.
NeedForceRecv(ds, lp, probeOk) == probeOk /\ ds[lp] = "placeholder"

\* Receiver.Receive between its deferred close and its returns.  pf, cf: the
\* ancestor whose probe / creation fails for another reason; tf: the read on the
\* target fails for another reason; recvOk: zfs.ZFSRecv succeeds.
ReceiveBody(m, ds, fs, pf, cf, tf, recvOk) ==
    LET n == NewDatasetPath(fs) IN
    IF n.err # Nil THEN RRet(n.err, NilRes, <<>>, ds, 0)
    ELSE LET mc == MapCheck(m, n.dp, ErrRecvDenied) IN
    IF mc.err # Nil THEN RRet(mc.err, NilRes, <<>>, ds, 0)
    ELSE LET lp == mc.lp
             w == WalkTopDown(lp, 1, ds, <<>>, pf, cf)
         IN
    IF w.visitErr # Nil THEN RRet(w.visitErr, NilRes, w.calls, w.datasets, 0)
    ELSE LET probeOk == ~ProbeFails(w.datasets, lp, IF tf THEN lp ELSE NoPath)
             force == NeedForceRecv(w.datasets, lp, probeOk)
             c == w.calls \o
                  <<FaultyCall("ZFSGet", lp, "", probeOk, tf),
                    BackendCall("ZFSRecv", lp, IF force THEN "-F" ELSE "", recvOk)>>
         IN
    IF ~recvOk THEN RRet(ErrBackend, NilRes, c, w.datasets, 0)
    ELSE RRet(Nil, NilRes, c, [w.datasets EXCEPT ![lp] = "real"], 0)

Receive_CloseOnSuccess(m, ds, fs, pf, cf, tf, recvOk) ==
    LET r == ReceiveBody(m, ds, fs, pf, cf, tf, recvOk)
    IN [r EXCEPT !.closes = IF r.err = Nil THEN 1 ELSE 0]

\* Receiver.Receive: `defer sendStream.Close()` runs once, on whichever return.
Receive(m, ds, fs, pf, cf, tf, recvOk) ==
    LET r == ReceiveBody(m, ds, fs, pf, cf, tf, recvOk)
    IN [r EXCEPT !.closes = r.closes + 1]

----------------------------------------------------------------------------
(* The record of a call *)

\* op: the method called; req: its request; given: whether a stream came with
\* the request; err, res, stream: what it returned; calls: the backend calls it
\* made, in order; closes: how often the request stream was closed.
\* rpc: the call name given to Handle ("" for a direct call); invoked: the
\* Endpoint methods Handle called; epStream: the stream the Endpoint returned.
Call(op, req, given, err, res, stream, calls, closes) ==
    [op |-> op, req |-> req, given |-> given, err |-> err, res |-> res,
     stream |-> stream, calls |-> calls, closes |-> closes,
     rpc |-> "", invoked |-> <<>>, epStream |-> stream]

NoCall == Call("none", Req(Malformed, <<>>, "", ""), FALSE, Nil, NilRes, NoStream, <<>>, 0)

----------------------------------------------------------------------------
(* The sending endpoint, called directly *)

FilterOutcomes == {"pass", "deny", "err"}
Rotate(o) == CASE o = "pass" -> "deny" [] o = "deny" -> "err" [] OTHER -> "pass"
Policy0 == [p \in SenderFS |-> IF p = <<"zroot">> THEN "pass" ELSE "deny"]
FilterPolicies == {Policy0, [p \in SenderFS |-> Rotate(Policy0[p])],
                   [p \in SenderFS |-> Rotate(Rotate(Policy0[p]))]}

\* The receiving side's state is not used by the sending endpoint.
NoDatasets == [p \in LocalPaths |-> "absent"]

SenderDone(op, req, r) ==
    /\ last' = Call(op, req, FALSE, r.err, r.res, r.stream, r.calls, 0)
    /\ replicated' = r.replicated
    /\ UNCHANGED <<FSFilter, fsmap, datasets, pre, ep>>
    /\ UNCHANGED <<tasks, semVars>>

CallSenderListFilesystems ==
    \E bk \in BOOLEAN :
        SenderDone("ListFilesystems", Req(Malformed, <<>>, "", ""),
                   SenderListFilesystems(FSFilter, replicated, bk))

CallSenderListFilesystemVersions ==
    \E fs \in SenderInputs, bk \in BOOLEAN :
        SenderDone("ListFilesystemVersions", Req(fs, <<>>, "", ""),
                   SenderListFilesystemVersions(FSFilter, replicated, fs, bk))

CallSenderSend ==
    \E fs \in SenderInputs, dryOk \in BOOLEAN, sendOk \in BOOLEAN :
        SenderDone("Send", Req(fs, <<>>, "", ""),
                   SenderSend(FSFilter, replicated, fs, dryOk, sendOk))

CallSenderDestroySnapshots ==
    \E fs \in SenderInputs, snaps \in Batches :
        \E fails \in SUBSET (1..Len(snaps)) :
            SenderDone("DestroySnapshots", Req(fs, snaps, "", ""),
                       SenderDestroySnapshots(FSFilter, replicated, fs, snaps, fails))

CallSenderSnapshotReplicationStatus ==
    \E fs \in SenderInputs, snap \in SnapNames, opc \in Opcodes, bk \in BOOLEAN :
        SenderDone("SnapshotReplicationStatus", Req(fs, <<>>, snap, opc),
                   SenderSnapshotReplicationStatus(FSFilter, replicated, fs, snap, opc, bk))

\* NewSender(fsf, fsvf): any filter policy; no snapshot is marked replicated yet.
InitSender ==
    /\ FSFilter \in FilterPolicies
    /\ replicated = {}
    /\ fsmap = [x \in RemoteRoots |-> "none"]
    /\ datasets = NoDatasets
    /\ pre = NoDatasets
    /\ ep = "Sender"
    /\ last = NoCall
    /\ NoTasks /\ NoGate

NextSender ==
    \/ CallSenderListFilesystems
    \/ CallSenderListFilesystemVersions
    \/ CallSenderSend
    \/ CallSenderDestroySnapshots
    \/ CallSenderSnapshotReplicationStatus

SpecSender == InitSender /\ [][NextSender]_vars

----------------------------------------------------------------------------
(* The receiving endpoint, called directly *)

MapOutcomes == {"map", "none", "err"}
RotateMap(o) == CASE o = "map" -> "none" [] o = "none" -> "err" [] OTHER -> "map"
Map0 == [x \in RemoteRoots |-> IF x = "r" THEN "map" ELSE "none"]
MapPolicies == {Map0, [x \in RemoteRoots |-> RotateMap(Map0[x])],
                [x \in RemoteRoots |-> RotateMap(RotateMap(Map0[x]))]}

\* Batches the receiving side is asked to destroy.
SampleBatches ==
    {<<>>, <<Item("Snapshot", "s1", "valid")>>,
     <<Item("Snapshot", "s2", "valid"), Item("Snapshot", "s1", "valid")>>,
     <<Item("Snapshot", "s1", "valid"), Item("Bookmark", "s2", "valid")>>}

\* The ancestors of the target a backend fault may hit, or none.
FaultChoices(fs) ==
    IF fs = Malformed THEN {NoPath} ELSE Ancestors(LocalOf(fs)) \cup {NoPath}

ReceiverDone(op, req, given, r) ==
    /\ last' = Call(op, req, given, r.err, r.res, NoStream, r.calls, r.closes)
    /\ datasets' = r.datasets
    /\ pre' = datasets
    /\ UNCHANGED <<FSFilter, replicated, fsmap, ep>>
    /\ UNCHANGED <<tasks, semVars>>

CallReceiverListFilesystems ==
    \E bk \in BOOLEAN, invOk \in BOOLEAN :
        ReceiverDone("ListFilesystems", Req(Malformed, <<>>, "", ""), FALSE,
                     ReceiverListFilesystems(fsmap, datasets, bk, invOk))

CallReceiverListFilesystemVersions ==
    \E fs \in ReceiverInputs, bk \in BOOLEAN :
        ReceiverDone("ListFilesystemVersions", Req(fs, <<>>, "", ""), FALSE,
                     ReceiverListFilesystemVersions(fsmap, datasets, fs, bk))

CallReceiverDestroySnapshots ==
    \E fs \in ReceiverInputs, snaps \in SampleBatches :
        \E fails \in SUBSET (1..Len(snaps)) :
            ReceiverDone("DestroySnapshots", Req(fs, snaps, "", ""), FALSE,
                         ReceiverDestroySnapshots(fsmap, datasets, fs, snaps, fails))

CallReceiverReceive ==
    \E fs \in ReceiverInputs, tf \in BOOLEAN, recvOk \in BOOLEAN :
        \E pf \in FaultChoices(fs), cf \in FaultChoices(fs) :
            ReceiverDone("Receive", Req(fs, <<>>, "", ""), TRUE,
                         Receive(fsmap, datasets, fs, pf, cf, tf, recvOk))

\* The pool and one filesystem beside the replicated chain exist beforehand.
InitialDatasets ==
    [p \in LocalPaths |-> IF p = LocalRoot \/ p = Side THEN "real" ELSE "absent"]

\* NewReceiver(fsmap, fsvf): any of the map policies.
InitReceiver ==
    /\ fsmap \in MapPolicies
    /\ datasets = InitialDatasets
    /\ pre = InitialDatasets
    /\ FSFilter = [p \in SenderFS |-> "deny"]
    /\ replicated = {}
    /\ ep = "Receiver"
    /\ last = NoCall
    /\ NoTasks /\ NoGate

NextReceiver ==
    \/ CallReceiverListFilesystems
    \/ CallReceiverListFilesystemVersions
    \/ CallReceiverDestroySnapshots
    \/ CallReceiverReceive

SpecReceiver == InitReceiver /\ [][NextReceiver]_vars

----------------------------------------------------------------------------
(* Handler: the server-side dispatcher *)

RPCListFilesystems           == "ListFilesystems"
RPCListFilesystemVersions    == "ListFilesystemVersions"
RPCReceive                   == "Receive"
RPCSend                      == "Send"
RPCSDestroySnapshots         == "DestroySnapshots"
RPCSnapshotReplicationStatus == "SnapshotReplicationStatus"
RPCNames == {RPCListFilesystems, RPCListFilesystemVersions, RPCReceive, RPCSend,
             RPCSDestroySnapshots, RPCSnapshotReplicationStatus}
UnknownRPC == "Unknown"

ErrPanic == "panic: nil stream"

\* The backend's part of a call: what it is asked with and how it answers.
In(fs, snaps, fails, snap, opc, bk, bk2, pf, cf, tf) ==
    [fs |-> fs, snapshots |-> snaps, fails |-> fails, snapshot |-> snap, opcode |-> opc,
     bk |-> bk, bk2 |-> bk2, pf |-> pf, cf |-> cf, tf |-> tf]

\* What Handle returns and leaves behind.  invoked: the Endpoint methods it
\* called; closes: how often the request stream was closed (Handle itself has
\* no Close call, the Endpoint's Receive has one); epStream: the stream the
\* Endpoint's Send returned; epCloses: how often Handle closed that stream
\* (it has no Close call for it either).
HRet(err, res, stream, invoked, calls, repl, ds, closes, epStream) ==
    [err |-> err, res |-> res, stream |-> stream, invoked |-> invoked, calls |-> calls,
     replicated |-> repl, datasets |-> ds, closes |-> closes, epStream |-> epStream,
     epCloses |-> 0]

\* What a Sender method's return means to Handle.
FromSender(r, name, ds) ==
    HRet(r.err, r.res, r.stream, <<name>>, r.calls, r.replicated, ds, 0, r.stream)

\* What a Receiver method's return means to Handle.
FromReceiver(r, name, repl) ==
    HRet(r.err, r.res, NoStream, <<name>>, r.calls, repl, r.datasets, r.closes, NoStream)

\* The method of the bound Endpoint for a call name, on the request `in`.
EndpointMethod(e, name, repl, ds, filter, m, in, given) ==
    IF e = "Sender"
    THEN FromSender(CASE name = RPCListFilesystems ->
                             SenderListFilesystems(filter, repl, in.bk)
                        [] name = RPCListFilesystemVersions ->
                             SenderListFilesystemVersions(filter, repl, in.fs, in.bk)
                        [] name = RPCSend ->
                             SenderSend(filter, repl, in.fs, in.bk, in.bk2)
                        [] name = RPCSDestroySnapshots ->
                             SenderDestroySnapshots(filter, repl, in.fs, in.snapshots, in.fails)
                        [] OTHER ->
                             SenderSnapshotReplicationStatus(filter, repl, in.fs, in.snapshot,
                                                             in.opcode, in.bk),
                    name, ds)
    ELSE FromReceiver(CASE name = RPCListFilesystems ->
                               ReceiverListFilesystems(m, ds, in.bk, in.bk2)
                          [] name = RPCListFilesystemVersions ->
                               ReceiverListFilesystemVersions(m, ds, in.fs, in.bk)
                          [] name = RPCSDestroySnapshots ->
                               ReceiverDestroySnapshots(m, ds, in.fs, in.snapshots, in.fails)
                          [] OTHER ->
                               IF given
                               THEN Receive(m, ds, in.fs, in.pf, in.cf, in.tf, in.bk)
                               ELSE RRet(ErrPanic, NilRes, <<>>, ds, 0),
                      name, repl)

\* a.ep.(replication.Sender) / a.ep.(replication.Receiver): whether the bound
\* Endpoint has the capability the call needs.
HasCapability(e, name) ==
    CASE name \in {RPCSend, RPCSnapshotReplicationStatus} -> e = "Sender"
      [] name = RPCReceive -> e = "Receiver"
      [] OTHER -> TRUE

NoCapabilityError_Specific(e, name) == "endpoint does not implement the call"

\* The error of the `goto Err` taken when the capability is missing.
NoCapabilityError(e, name) == ErrNoHandler

Reply_StreamKeptOnEncodeError(r, name, encodeOk) ==
    IF r.err # Nil THEN [r EXCEPT !.res = NilRes, !.stream = NoStream]
    ELSE IF ~encodeOk THEN [r EXCEPT !.err = ErrEncode, !.res = NilRes]
    ELSE [r EXCEPT !.res = <<name>> \o r.res]

\* The arm of Handle after the Endpoint method returned r: its error is passed
\* on, otherwise the result is marshalled and returned with the stream.
Reply(r, name, encodeOk) ==
    IF r.err # Nil THEN [r EXCEPT !.res = NilRes, !.stream = NoStream]
    ELSE IF ~encodeOk THEN [r EXCEPT !.err = ErrEncode, !.res = NilRes, !.stream = NoStream]
    ELSE [r EXCEPT !.res = <<name>> \o r.res]

\* Handler.Handle(ctx, endpoint, reqStructured, reqStream).  decodeOk: the
\* request payload unmarshals; encodeOk: the result marshals.
Handle(e, name, repl, ds, filter, m, in, given, decodeOk, encodeOk) ==
    IF name \notin RPCNames
    THEN HRet(ErrNoHandler, NilRes, NoStream, <<>>, <<>>, repl, ds, 0, NoStream)
    ELSE IF ~HasCapability(e, name)
    THEN HRet(NoCapabilityError(e, name), NilRes, NoStream, <<>>, <<>>, repl, ds, 0, NoStream)
    ELSE IF ~decodeOk
    THEN HRet(ErrDecode, NilRes, NoStream, <<>>, <<>>, repl, ds, 0, NoStream)
    ELSE Reply(EndpointMethod(e, name, repl, ds, filter, m, in, given), name, encodeOk)

----------------------------------------------------------------------------
(* The dispatcher bound to a sending or to a receiving endpoint *)

\* Requests the dispatcher is sent in this specification.
HandlerPaths(e) ==
    IF e = "Sender" THEN SenderInputs
    ELSE {Malformed, <<"r", "a">>, <<"q", "a">>, <<"r", "a", "a">>}
HandlerBatches ==
    {<<Item("Snapshot", "s1", "valid")>>,
     <<Item("Snapshot", "s1", "valid"), Item("Bookmark", "s2", "valid")>>}
\* <<decodeOk, encodeOk>>
Codec == {<<TRUE, TRUE>>, <<FALSE, TRUE>>, <<TRUE, FALSE>>}

HandleDone(name, in, given, h) ==
    /\ last' = [op |-> "Handle", rpc |-> name,
                req |-> Req(in.fs, in.snapshots, in.snapshot, in.opcode),
                given |-> given, err |-> h.err, res |-> h.res, stream |-> h.stream,
                calls |-> h.calls, closes |-> h.closes, invoked |-> h.invoked,
                epStream |-> h.epStream, epCloses |-> h.epCloses]
    /\ replicated' = h.replicated
    /\ datasets' = h.datasets
    /\ pre' = datasets
    /\ UNCHANGED <<FSFilter, fsmap, ep>>
    /\ UNCHANGED <<tasks, semVars>>

\* The requests of one call name.
HandlerInputs(e, name) ==
    CASE name = RPCListFilesystems ->
           {In(Malformed, <<>>, {}, "", "", bk, bk2, NoPath, NoPath, FALSE) :
               bk \in BOOLEAN, bk2 \in BOOLEAN}
      [] name = RPCListFilesystemVersions ->
           {In(fs, <<>>, {}, "", "", bk, TRUE, NoPath, NoPath, FALSE) :
               fs \in HandlerPaths(e), bk \in BOOLEAN}
      [] name = RPCSend ->
           {In(fs, <<>>, {}, "", "", dryOk, sendOk, NoPath, NoPath, FALSE) :
               fs \in HandlerPaths(e), dryOk \in BOOLEAN, sendOk \in BOOLEAN}
      [] name = RPCReceive ->
           UNION {{In(fs, <<>>, {}, "", "", recvOk, TRUE, NoPath, cf, tf) :
                      recvOk \in BOOLEAN, tf \in BOOLEAN, cf \in FaultChoices(fs)} :
                  fs \in HandlerPaths(e)}
      [] name = RPCSDestroySnapshots ->
           UNION {{In(fs, snaps, fails, "", "", TRUE, TRUE, NoPath, NoPath, FALSE) :
                      fs \in HandlerPaths(e), fails \in SUBSET (1..Len(snaps))} :
                  snaps \in HandlerBatches}
      [] name = RPCSnapshotReplicationStatus ->
           {In(fs, <<>>, {}, snap, opc, bk, TRUE, NoPath, NoPath, FALSE) :
               fs \in HandlerPaths(e), snap \in SnapNames, opc \in Opcodes, bk \in BOOLEAN}
      [] OTHER ->
           {In(Malformed, <<>>, {}, "", "", TRUE, TRUE, NoPath, NoPath, FALSE)}

\* One call arrives at the dispatcher.
CallHandle ==
    \E name \in RPCNames \cup {UnknownRPC}, given \in BOOLEAN, codec \in Codec :
        \E in \in HandlerInputs(ep, name) :
            \E h \in {Handle(ep, name, replicated, datasets, FSFilter, fsmap, in, given,
                             codec[1], codec[2])} :
                HandleDone(name, in, given, h)

\* NewHandler(ep) with ep a Sender or a Receiver.
InitHandler ==
    \/ /\ ep = "Sender"
       /\ FSFilter \in FilterPolicies
       /\ fsmap = [x \in RemoteRoots |-> "none"]
       /\ datasets = NoDatasets
       /\ pre = NoDatasets
       /\ replicated = {}
       /\ last = NoCall
       /\ NoTasks /\ NoGate
    \/ /\ ep = "Receiver"
       /\ fsmap \in MapPolicies
       /\ FSFilter = [p \in SenderFS |-> "deny"]
       /\ datasets = InitialDatasets
       /\ pre = InitialDatasets
       /\ replicated = {}
       /\ last = NoCall
       /\ NoTasks /\ NoGate

NextHandler == CallHandle

SpecHandler == InitHandler /\ [][NextHandler]_vars

----------------------------------------------------------------------------
(* Remote: the client-side stubs *)

ErrTransport        == "transport error"
ErrUnexpectedStream == "response contains unexpected stream"
ErrMissingStream    == "response does not contain a stream"

\* What s.c.RequestReply returns: an error, or the structured reply (payload,
\* and whether it unmarshals) with or without a stream.
WireReply(err, payload, decodeOk, stream) ==
    [err |-> err, payload |-> payload, decodeOk |-> decodeOk, stream |-> stream]
Replies ==
    {WireReply(ErrTransport, "", FALSE, NoStream)} \cup
    {WireReply(Nil, p, d, st) : p \in {"p1", "p2"}, d \in BOOLEAN, st \in {NoStream, "replyStream"}}

\* One s.c.RequestReply call as the stub makes it.
Request(endpoint, req, stream) == [endpoint |-> endpoint, req |-> req, stream |-> stream]

\* What a stub returns and leaves behind: the error, the result, the stream
\* handed to the caller, the RequestReply calls made, how often the reply's
\* stream and the caller's stream were closed.
RemRet(err, res, stream, requests, replyCloses, sendCloses) ==
    [err |-> err, res |-> res, stream |-> stream, requests |-> requests,
     replyCloses |-> replyCloses, sendCloses |-> sendCloses]

AfterReply_StreamIgnored(reply, requests, sendCloses) ==
    IF reply.err # Nil THEN RemRet(reply.err, NilRes, NoStream, requests, 0, sendCloses)
    ELSE IF ~reply.decodeOk THEN RemRet(ErrDecode, NilRes, NoStream, requests, 0, sendCloses)
    ELSE RemRet(Nil, <<reply.payload>>, NoStream, requests, 0, sendCloses)

\* The part the stubs that expect no stream share, from the return of
\* RequestReply on: error check, `rs != nil` check with close, unmarshal.
AfterReply(reply, requests, sendCloses) ==
    IF reply.err # Nil THEN RemRet(reply.err, NilRes, NoStream, requests, 0, sendCloses)
    ELSE IF reply.stream # NoStream
    THEN RemRet(ErrUnexpectedStream, NilRes, NoStream, requests, 1, sendCloses)
    ELSE IF ~reply.decodeOk THEN RemRet(ErrDecode, NilRes, NoStream, requests, 0, sendCloses)
    ELSE RemRet(Nil, <<reply.payload>>, NoStream, requests, 0, sendCloses)

\* Remote.ListFilesystems
RemoteListFilesystems(marshalOk, reply) ==
    IF ~marshalOk THEN RemRet(ErrEncode, NilRes, NoStream, <<>>, 0, 0)
    ELSE AfterReply(reply, <<Request(RPCListFilesystems, Malformed, NoStream)>>, 0)

\* Remote.ListFilesystemVersions
RemoteListFilesystemVersions(fs, marshalOk, reply) ==
    IF ~marshalOk THEN RemRet(ErrEncode, NilRes, NoStream, <<>>, 0, 0)
    ELSE AfterReply(reply, <<Request(RPCListFilesystemVersions, fs, NoStream)>>, 0)

RemoteSend_NoStreamAccepted(fs, marshalOk, reply) ==
    LET rq == <<Request(RPCSend, fs, NoStream)>> IN
    IF ~marshalOk THEN RemRet(ErrEncode, NilRes, NoStream, <<>>, 0, 0)
    ELSE IF reply.err # Nil THEN RemRet(reply.err, NilRes, NoStream, rq, 0, 0)
    ELSE IF ~reply.decodeOk
    THEN RemRet(ErrDecode, NilRes, NoStream, rq, IF reply.stream # NoStream THEN 1 ELSE 0, 0)
    ELSE RemRet(Nil, <<reply.payload>>, reply.stream, rq, 0, 0)

\* Remote.Send
RemoteSend(fs, marshalOk, reply) ==
    LET rq == <<Request(RPCSend, fs, NoStream)>> IN
    IF ~marshalOk THEN RemRet(ErrEncode, NilRes, NoStream, <<>>, 0, 0)
    ELSE IF reply.err # Nil THEN RemRet(reply.err, NilRes, NoStream, rq, 0, 0)
    ELSE IF reply.stream = NoStream THEN RemRet(ErrMissingStream, NilRes, NoStream, rq, 0, 0)
    ELSE IF ~reply.decodeOk THEN RemRet(ErrDecode, NilRes, NoStream, rq, 1, 0)
    ELSE RemRet(Nil, <<reply.payload>>, reply.stream, rq, 0, 0)

\* Remote.Receive: `defer sendStream.Close()`, then as the other stubs, with
\* sendStream given to RequestReply.
RemoteReceive(fs, marshalOk, reply) ==
    IF ~marshalOk THEN RemRet(ErrEncode, NilRes, NoStream, <<>>, 0, 1)
    ELSE LET r == AfterReply(reply, <<Request(RPCReceive, fs, "sendStream")>>, 1)
         IN [r EXCEPT !.res = NilRes]

\* Remote.DestroySnapshots
RemoteDestroySnapshots(fs, marshalOk, reply) ==
    IF ~marshalOk THEN RemRet(ErrEncode, NilRes, NoStream, <<>>, 0, 0)
    ELSE AfterReply(reply, <<Request(RPCSDestroySnapshots, fs, NoStream)>>, 0)

----------------------------------------------------------------------------
(* The stubs, called by a client *)

RemoteDone(op, fs, reply, r) ==
    /\ last' = [op |-> op, req |-> Req(fs, <<>>, "", ""), reply |-> reply,
                err |-> r.err, res |-> r.res, stream |-> r.stream,
                requests |-> r.requests, replyCloses |-> r.replyCloses,
                sendCloses |-> r.sendCloses]
    /\ UNCHANGED <<FSFilter, replicated, fsmap, datasets, pre, ep>>
    /\ UNCHANGED <<tasks, semVars>>

CallRemoteListFilesystems ==
    \E marshalOk \in BOOLEAN, reply \in Replies :
        RemoteDone("Remote.ListFilesystems", Malformed, reply,
                   RemoteListFilesystems(marshalOk, reply))

CallRemoteListFilesystemVersions ==
    \E fs \in SenderInputs, marshalOk \in BOOLEAN, reply \in Replies :
        RemoteDone("Remote.ListFilesystemVersions", fs, reply,
                   RemoteListFilesystemVersions(fs, marshalOk, reply))

CallRemoteSend ==
    \E fs \in SenderInputs, marshalOk \in BOOLEAN, reply \in Replies :
        RemoteDone("Remote.Send", fs, reply, RemoteSend(fs, marshalOk, reply))

CallRemoteReceive ==
    \E fs \in SenderInputs, marshalOk \in BOOLEAN, reply \in Replies :
        RemoteDone("Remote.Receive", fs, reply, RemoteReceive(fs, marshalOk, reply))

CallRemoteDestroySnapshots ==
    \E fs \in SenderInputs, marshalOk \in BOOLEAN, reply \in Replies :
        RemoteDone("Remote.DestroySnapshots", fs, reply,
                   RemoteDestroySnapshots(fs, marshalOk, reply))

\* NewRemote(c)
InitRemote ==
    /\ ep = "Remote"
    /\ FSFilter = [p \in SenderFS |-> "deny"]
    /\ fsmap = [x \in RemoteRoots |-> "none"]
    /\ datasets = NoDatasets
    /\ pre = NoDatasets
    /\ replicated = {}
    /\ last = NoCall
    /\ NoTasks /\ NoGate

NextRemote ==
    \/ CallRemoteListFilesystems
    \/ CallRemoteListFilesystemVersions
    \/ CallRemoteSend
    \/ CallRemoteReceive
    \/ CallRemoteDestroySnapshots

SpecRemote == InitRemote /\ [][NextRemote]_vars

----------------------------------------------------------------------------
(* The bounded-concurrency gate (package semaphore) *)

Acquirers == 1..NumAcquirers

\* An operation using the gate.  pc: "idle" before it calls Acquire, "waiting"
\* while Acquire blocks, "holding" while its ticket is outstanding, "done" after
\* it released, "cancelled" when Acquire returned the cancellation error.
\* ctxDone: its context is cancelled; waited: its Acquire blocked; at: when it
\* was admitted; releases: the Release calls on its ticket.
Acquirer(pc, ctxDone, waited, at, releases) ==
    [pc |-> pc, ctxDone |-> ctxDone, waited |-> waited, at |-> at, releases |-> releases]

\* New(n): a gate with n free slots.
New(n) == n

SlotFree_OneShort(s) == s > 1

\* Acquire goes through (does not block) when a slot is free.
SlotFree(s) == s > 0

\* The slots left after an admission.
Take(s) == s - 1

Release_Twice(s, released) == s + 1

Release_KeepsSlot(s, released) == s

\* ticket.Release(): returns the slot, once per ticket.
Release(s, released) == IF released THEN s ELSE s + 1

AcquireCancelled_TakesSlot(s) == s - 1

\* The slots left after an Acquire returned the cancellation error.
AcquireCancelled(s) == s

\* The tickets acquired and not released.
Outstanding == Cardinality({i \in Acquirers : acq[i].pc = "holding"})

\* The endpoint's state is not used by the gate.
NoEndpoint ==
    /\ ep = "none"
    /\ FSFilter = [p \in SenderFS |-> "deny"]
    /\ fsmap = [x \in RemoteRoots |-> "none"]
    /\ datasets = NoDatasets
    /\ pre = NoDatasets
    /\ replicated = {}
    /\ last = NoCall

\* sem := New(N), with M operations that have not called Acquire yet.
InitGate ==
    /\ NoEndpoint
    /\ NoTasks
    /\ sem = New(Capacity)
    /\ acq = [i \in Acquirers |-> Acquirer("idle", FALSE, FALSE, 0, 0)]
    /\ now = 0
    /\ acquisitions = [beforeT |-> 0, afterT |-> 0]

\* Operation i calls sem.Acquire(ctx): admitted at once when a slot is free
\* and its context has not ended, blocked otherwise.
Acquire(i) ==
    /\ acq[i].pc = "idle"
    /\ IF SlotFree(sem) /\ ~acq[i].ctxDone
       THEN /\ sem' = Take(sem)
            /\ acq' = [acq EXCEPT ![i].pc = "holding", ![i].at = now]
       ELSE /\ sem' = sem
            /\ acq' = [acq EXCEPT ![i].pc = "waiting", ![i].waited = TRUE]
    /\ UNCHANGED <<epVars, tasks, now, acquisitions>>

\* The blocked Acquire of operation i returns a ticket: a slot is free and its
\* context has not ended first.
Admit(i) ==
    /\ acq[i].pc = "waiting"
    /\ SlotFree(sem)
    /\ ~acq[i].ctxDone
    /\ sem' = Take(sem)
    /\ acq' = [acq EXCEPT ![i].pc = "holding", ![i].at = now]
    /\ UNCHANGED <<epVars, tasks, now, acquisitions>>

\* The context of operation i is cancelled.
CancelCtx(i) ==
    /\ ~acq[i].ctxDone
    /\ acq[i].pc \in {"idle", "waiting", "holding"}
    /\ acq' = [acq EXCEPT ![i].ctxDone = TRUE]
    /\ UNCHANGED <<epVars, tasks, sem, now, acquisitions>>

\* The blocked Acquire of operation i returns the cancellation error.
AcquireFails(i) ==
    /\ acq[i].pc = "waiting"
    /\ acq[i].ctxDone
    /\ sem' = AcquireCancelled(sem)
    /\ acq' = [acq EXCEPT ![i].pc = "cancelled"]
    /\ UNCHANGED <<epVars, tasks, now, acquisitions>>

\* Operation i releases its ticket.
ReleaseTicket(i) ==
    /\ acq[i].pc = "holding"
    /\ sem' = Release(sem, FALSE)
    /\ acq' = [acq EXCEPT ![i].pc = "done", ![i].releases = 1]
    /\ UNCHANGED <<epVars, tasks, now, acquisitions>>

\* Operation i calls Release on its ticket a second time.
ReleaseAgain(i) ==
    /\ acq[i].pc = "done"
    /\ acq[i].releases = 1
    /\ sem' = Release(sem, TRUE)
    /\ acq' = [acq EXCEPT ![i].releases = 2]
    /\ UNCHANGED <<epVars, tasks, now, acquisitions>>

NextGate ==
    \/ \E i \in Acquirers : Acquire(i)
    \/ \E i \in Acquirers : Admit(i)
    \/ \E i \in Acquirers : CancelCtx(i)
    \/ \E i \in Acquirers : AcquireFails(i)
    \/ \E i \in Acquirers : ReleaseTicket(i)
    \/ \E i \in Acquirers : ReleaseAgain(i)

\* Every interleaving of Acquire, Release and cancellation.
SpecGate == InitGate /\ [][NextGate]_vars

NextGateLive ==
    \/ \E i \in Acquirers : Acquire(i)
    \/ \E i \in Acquirers : Admit(i)
    \/ \E i \in Acquirers : ReleaseTicket(i)

\* No context is cancelled; every operation is scheduled, a blocked Acquire
\* returns when a slot stays free, and every admitted operation releases.
SpecGateLive ==
    /\ InitGate
    /\ [][NextGateLive]_vars
    /\ \A i \in Acquirers :
          WF_vars(Acquire(i)) /\ WF_vars(Admit(i)) /\ WF_vars(ReleaseTicket(i))

----------------------------------------------------------------------------
(* TestSemaphore: M goroutines acquire together and hold for sleepTime *)

\* if time.Since(begin) > sleepTime { afterT++ } else { beforeT++ }
Count(a, t) ==
    IF t > 0 THEN [a EXCEPT !.afterT = a.afterT + 1]
    ELSE [a EXCEPT !.beforeT = a.beforeT + 1]

\* Goroutine i calls sem.Acquire(ctx) and is admitted or blocks.
TestAcquire(i) ==
    /\ acq[i].pc = "idle"
    /\ IF SlotFree(sem)
       THEN /\ sem' = Take(sem)
            /\ acq' = [acq EXCEPT ![i].pc = "holding", ![i].at = now]
            /\ acquisitions' = Count(acquisitions, now)
       ELSE /\ sem' = sem
            /\ acq' = [acq EXCEPT ![i].pc = "waiting", ![i].waited = TRUE]
            /\ acquisitions' = acquisitions
    /\ UNCHANGED <<epVars, tasks, now>>

\* The blocked Acquire of goroutine i returns.
TestAdmit(i) ==
    /\ acq[i].pc = "waiting"
    /\ SlotFree(sem)
    /\ sem' = Take(sem)
    /\ acq' = [acq EXCEPT ![i].pc = "holding", ![i].at = now]
    /\ acquisitions' = Count(acquisitions, now)
    /\ UNCHANGED <<epVars, tasks, now>>

\* time.Sleep(sleepTime) of goroutine i is over.
Slept(i) == acq[i].pc = "holding" /\ now > acq[i].at

\* Goroutine i returns: the deferred res.Release() runs.
TestRelease(i) ==
    /\ Slept(i)
    /\ sem' = Release(sem, FALSE)
    /\ acq' = [acq EXCEPT ![i].pc = "done", ![i].releases = 1]
    /\ UNCHANGED <<epVars, tasks, now, acquisitions>>

\* A goroutine can take a step without time passing.
Runnable(i) ==
    \/ acq[i].pc = "idle"
    \/ acq[i].pc = "waiting" /\ SlotFree(sem)
    \/ Slept(i)

\* sleepTime passes: every goroutine is asleep or blocked.
Tick ==
    /\ \A i \in Acquirers : ~Runnable(i)
    /\ \E i \in Acquirers : acq[i].pc = "holding"
    /\ now' = now + 1
    /\ UNCHANGED <<epVars, tasks, sem, acq, acquisitions>>

NextTest ==
    \/ \E i \in Acquirers : TestAcquire(i)
    \/ \E i \in Acquirers : TestAdmit(i)
    \/ \E i \in Acquirers : TestRelease(i)
    \/ Tick

SpecTest == InitGate /\ [][NextTest]_vars

----------------------------------------------------------------------------
(* Concurrent Receive calls on one receiving endpoint *)

Tasks == {"t1", "t2"}

\* The local targets of the calls: a filesystem and a descendant of it.
ReceiveTargets == {Chain(2), Chain(3)}

\* A Receive call in progress, from the ancestor walk on.  pc: the backend call
\* it makes next ("visit": ZFSGet of the ancestor at depth d, "create":
\* ZFSCreatePlaceholderFilesystem of it, "target": ZFSGet of lp, "recv": ZFSRecv)
\* or "receiving" while ZFSRecv runs; force: needForceRecv; seen: the target as
\* the property read found it; startState: the target as it was when ZFSRecv
\* started.
Task(pc, lp, d, force, seen, startState, err) ==
    [pc |-> pc, lp |-> lp, d |-> d, force |-> force, seen |-> seen,
     startState |-> startState, err |-> err]

IdleTask == Task("idle", NoPath, 0, FALSE, "none", "none", Nil)

\* Where the walk goes after the visitor returned true for depth d.
Descend(t) ==
    IF t.d + 1 < Len(t.lp) THEN [t EXCEPT !.pc = "visit", !.d = t.d + 1]
    ELSE [t EXCEPT !.pc = "target", !.d = t.d + 1]

\* Receive(req) was called for a mapped target and reaches the walk.
BeginReceive(k) ==
    /\ tasks[k].pc = "idle"
    /\ \E lp \in ReceiveTargets :
          tasks' = [tasks EXCEPT ![k] = [IdleTask EXCEPT !.pc = "visit", !.lp = lp, !.d = 1]]
    /\ UNCHANGED <<epVars, semVars>>

\* The visitor probes the ancestor at depth d with zfs.ZFSGet.
VisitAncestor(k) ==
    /\ tasks[k].pc = "visit"
    /\ LET t == tasks[k]
           v == SubSeq(t.lp, 1, t.d)
           probeOk == ~ProbeFails(datasets, v, NoPath)
       IN tasks' = [tasks EXCEPT ![k] =
                       IF NeedCreate(datasets, v, probeOk) THEN [t EXCEPT !.pc = "create"]
                       ELSE IF VisitChildTree(probeOk, FALSE) THEN Descend(t)
                       ELSE [t EXCEPT !.pc = "done"]]
    /\ UNCHANGED <<epVars, semVars>>

\* The visitor creates the placeholder at depth d; a failure ends the call.
CreatePlaceholder(k) ==
    /\ tasks[k].pc = "create"
    /\ LET t == tasks[k]
           v == SubSeq(t.lp, 1, t.d)
           createOk == ~CreateFails(datasets, v, NoPath)
           visitErr == VisitErr(TRUE, createOk)
       IN /\ datasets' = IF createOk THEN [datasets EXCEPT ![v] = "placeholder"] ELSE datasets
          /\ tasks' = [tasks EXCEPT ![k] =
                          IF visitErr # Nil THEN [t EXCEPT !.pc = "done", !.err = visitErr]
                          ELSE IF VisitChildTree(FALSE, createOk) THEN Descend(t)
                          ELSE [t EXCEPT !.pc = "done"]]
    /\ UNCHANGED <<FSFilter, replicated, fsmap, pre, ep, last, semVars>>

\* The property read on the target decides needForceRecv.
ProbeTarget(k) ==
    /\ tasks[k].pc = "target"
    /\ LET t == tasks[k]
           probeOk == ~ProbeFails(datasets, t.lp, NoPath)
       IN tasks' = [tasks EXCEPT ![k] =
                       [t EXCEPT !.pc = "recv",
                                 !.force = NeedForceRecv(datasets, t.lp, probeOk),
                                 !.seen = datasets[t.lp]]]
    /\ UNCHANGED <<epVars, semVars>>

\* zfs.ZFSRecv starts, with -F when needForceRecv.
RecvStart(k) ==
    /\ tasks[k].pc = "recv"
    /\ tasks' = [tasks EXCEPT ![k].pc = "receiving", ![k].startState = datasets[tasks[k].lp]]
    /\ UNCHANGED <<epVars, semVars>>

\* zfs.ZFSRecv returns; when it succeeded the target holds the received data.
RecvEnd(k) ==
    /\ tasks[k].pc = "receiving"
    /\ \E recvOk \in BOOLEAN :
          /\ datasets' = IF recvOk THEN [datasets EXCEPT ![tasks[k].lp] = "real"] ELSE datasets
          /\ tasks' = [tasks EXCEPT ![k].pc = "done",
                                    ![k].err = IF recvOk THEN Nil ELSE ErrBackend]
    /\ UNCHANGED <<FSFilter, replicated, fsmap, pre, ep, last, semVars>>

\* The pool exists; the first target is missing, a placeholder or real.
InitConcurrent ==
    /\ ep = "Receiver"
    /\ fsmap = [x \in RemoteRoots |-> "map"]
    /\ FSFilter = [p \in SenderFS |-> "deny"]
    /\ \E st \in {"absent", "placeholder", "real"} :
          datasets = [p \in LocalPaths |->
                         IF p = LocalRoot THEN "real" ELSE IF p = Chain(2) THEN st ELSE "absent"]
    /\ pre = datasets
    /\ replicated = {}
    /\ last = NoCall
    /\ tasks = [k \in Tasks |-> IdleTask]
    /\ NoGate

NextConcurrent ==
    \/ \E k \in Tasks : BeginReceive(k)
    \/ \E k \in Tasks : VisitAncestor(k)
    \/ \E k \in Tasks : CreatePlaceholder(k)
    \/ \E k \in Tasks : ProbeTarget(k)
    \/ \E k \in Tasks : RecvStart(k)
    \/ \E k \in Tasks : RecvEnd(k)

SpecConcurrent == InitConcurrent /\ [][NextConcurrent]_vars

----------------------------------------------------------------------------
(* Properties of the sending endpoint and of doDestroySnapshots *)

FilteredMethods ==
    {"ListFilesystemVersions", "Send", "DestroySnapshots", "SnapshotReplicationStatus"}

\* The last call was a Sender method on a well-formed path the filter denies.
SenderDenied ==
    /\ last.op \in FilteredMethods
    /\ last.req.fs \in SenderFS
    /\ FSFilter[last.req.fs] = "deny"

\* The last call was a Sender method on a well-formed path the filter passes.
SenderPermitted ==
    /\ last.op \in FilteredMethods
    /\ last.req.fs \in SenderFS
    /\ FSFilter[last.req.fs] = "pass"

\* C1: a Sender call on a path the filter denies returns the filtered error,
\* no result and no stream, and makes no backend call; and the filtered error
\* is returned in no other case.
C1_FilteredNoBackend ==
    /\ SenderDenied =>
          /\ last.err = ErrFiltered
          /\ last.res = NilRes
          /\ last.stream = NoStream
          /\ last.calls = <<>>
    /\ (last.op \in FilteredMethods /\ last.err = ErrFiltered) => SenderDenied

C1_Witness ==
    /\ SenderDenied
    /\ last.op = "SnapshotReplicationStatus"
    /\ last.req.opcode = "SetReplicated"
    /\ last.err = ErrFiltered

DestroyN == Len(last.req.snapshots)
AllSnapshots == \A i \in 1..DestroyN : last.req.snapshots[i].Type = "Snapshot"
AllConvertible == \A i \in 1..DestroyN : last.req.snapshots[i].Creation = "valid"
FailedCalls == {i \in 1..Len(last.calls) : ~last.calls[i].ok}

\* One result per requested item, in input order, with an error text exactly
\* where the backend failed, and one backend destroy per item.
DestroyReportsEach ==
    /\ last.err = Nil
    /\ Len(last.res) = 1
    /\ Len(last.res[1].Results) = DestroyN
    /\ Len(last.calls) = DestroyN
    /\ \A i \in 1..DestroyN :
          /\ last.res[1].Results[i].Snapshot.Name = last.req.snapshots[i].Name
          /\ last.res[1].Results[i].Snapshot.Type = "Snapshot"
          /\ last.calls[i].fn = "ZFSDestroyFilesystemVersion"
          /\ last.calls[i].path = last.req.fs
          /\ last.calls[i].arg = last.req.snapshots[i].Name
          /\ (last.res[1].Results[i].Error # "") <=> (i \in FailedCalls)
    /\ Cardinality({i \in 1..DestroyN : last.res[1].Results[i].Error # ""})
          = Cardinality(FailedCalls)

\* C7 as stated: DestroySnapshots on a permitted filesystem whose items are all
\* of kind snapshot succeeds and reports one result per item.
C7_Original ==
    (last.op = "DestroySnapshots" /\ SenderPermitted /\ AllSnapshots)
        => DestroyReportsEach

\* C7 amended: DestroySnapshots on a permitted filesystem whose items are all
\* of kind snapshot and all convert to a backend version succeeds and reports
\* one result per item, in input order, K of them with an error text when the
\* backend failed K destroys; an item of kind snapshot that does not convert
\* fails the whole call before any destroy.
C7_DestroyPerItem ==
    /\ (last.op = "DestroySnapshots" /\ SenderPermitted /\ AllSnapshots /\ AllConvertible)
          => DestroyReportsEach
    /\ (last.op = "DestroySnapshots" /\ SenderPermitted /\ AllSnapshots /\ ~AllConvertible)
          => (last.err = ErrConvert /\ last.res = NilRes /\ last.calls = <<>>)

\* Two items, the first of which the backend fails and the second of which it destroys.
C7_Witness ==
    /\ last.op = "DestroySnapshots" /\ SenderPermitted /\ AllSnapshots /\ AllConvertible
    /\ DestroyN = 2
    /\ FailedCalls = {1}
    /\ last.err = Nil
    /\ last.res[1].Results[2].Error = ""

\* C8: a batch with any item that is not a snapshot fails as a whole, returns
\* no results and destroys nothing.
C8_BadKindRejectsBatch ==
    (last.op = "DestroySnapshots" /\ ~AllSnapshots)
        => (last.err # Nil /\ last.res = NilRes /\ last.calls = <<>>)

\* A valid snapshot first, then a bookmark, on a permitted filesystem.
C8_Witness ==
    /\ last.op = "DestroySnapshots" /\ SenderPermitted
    /\ DestroyN = 2
    /\ last.req.snapshots[1] = Item("Snapshot", "s1", "valid")
    /\ last.req.snapshots[2].Type = "Bookmark"
    /\ last.err = ErrNotSnap

----------------------------------------------------------------------------
(* Properties of the receiving endpoint *)

MappedMethods == {"ListFilesystemVersions", "DestroySnapshots", "Receive"}

\* The last call was a Receiver method on a well-formed path the map leaves unmapped.
ReceiverUnmapped ==
    /\ last.op \in MappedMethods
    /\ last.req.fs \in RemotePaths
    /\ fsmap[last.req.fs[1]] = "none"

\* The last call was a Receive of a well-formed path the map maps.
ReceiveMapped ==
    /\ last.op = "Receive"
    /\ last.req.fs \in RemotePaths
    /\ fsmap[last.req.fs[1]] = "map"

Target == LocalOf(last.req.fs)
NCalls == Len(last.calls)
CallIdx(fn) == {k \in 1..NCalls : last.calls[k].fn = fn}
CreateAttempts == CallIdx("ZFSCreatePlaceholderFilesystem")
Created == {last.calls[k].path : k \in {j \in CreateAttempts : last.calls[j].ok}}
Touched == {last.calls[k].path : k \in 1..NCalls}
RecvInvoked == CallIdx("ZFSRecv") # {}
Missing == {a \in Ancestors(Target) : pre[a] = "absent"}
\* The probes of strict ancestors of the target (the walk's probes).
AncestorProbes == {k \in CallIdx("ZFSGet") : last.calls[k].path \in Ancestors(Target)}

\* C2: a Receiver call on an unmapped path is denied and leaves the backend
\* alone: no backend call, no dataset changed, no result.
C2_UnmappedDenied ==
    ReceiverUnmapped =>
        /\ last.err = (IF last.op = "Receive" THEN ErrRecvDenied ELSE ErrDenied)
        /\ last.res = NilRes
        /\ last.calls = <<>>
        /\ datasets = pre

\* An unmapped Receive whose target's parent does not exist.
C2_Witness ==
    /\ ReceiverUnmapped
    /\ last.op = "Receive"
    /\ Len(last.req.fs) >= 3
    /\ datasets[Parent(Target)] = "absent"
    /\ last.err = ErrRecvDenied

\* The force directive was passed to the backend receive.
Forced == \E k \in CallIdx("ZFSRecv") : last.calls[k].arg = "-F"

\* C3 as stated: the backend receive gets the force directive exactly when the
\* target exists and carries the placeholder marker.
C3_Original ==
    (ReceiveMapped /\ RecvInvoked) => (Forced <=> pre[Target] = "placeholder")

\* C3 amended: the backend receive gets the force directive exactly when the
\* read of the placeholder property on the target succeeds and the target
\* carries the marker; so it is never forced on a target that does not exist or
\* exists without the marker, and it is not forced on a placeholder whose
\* property read fails.
C3_ForceIffMarkerRead ==
    (ReceiveMapped /\ RecvInvoked) =>
        /\ Cardinality(CallIdx("ZFSRecv")) = 1
        /\ \A k \in CallIdx("ZFSRecv") :
              /\ k = NCalls /\ k > 1
              /\ last.calls[k].path = Target
              /\ last.calls[k - 1].fn = "ZFSGet"
              /\ last.calls[k - 1].path = Target
              /\ (last.calls[k].arg = "-F")
                    <=> (last.calls[k - 1].ok /\ pre[Target] = "placeholder")
        /\ Forced => pre[Target] = "placeholder"
        /\ datasets[Target] = (IF last.err = Nil THEN "real" ELSE pre[Target])

\* A forced receive into a placeholder.
C3_Witness ==
    /\ ReceiveMapped /\ RecvInvoked /\ Forced
    /\ pre[Target] = "placeholder"
    /\ last.err = Nil

\* Nothing outside the target and its strict ancestors is probed, created or changed.
OnlyChainTouched ==
    /\ Touched \subseteq (Ancestors(Target) \cup {Target})
    /\ \A p \in LocalPaths : p \notin (Ancestors(Target) \cup {Target}) => datasets[p] = pre[p]

\* Placeholders are created root-first, each after its parent exists, never at
\* the target, and every created one is a placeholder afterwards.
CreatedRootFirst ==
    /\ Target \notin Created
    /\ \A k \in CreateAttempts : last.calls[k].path \in Ancestors(Target)
    /\ \A j, k \in CreateAttempts :
          j < k => Len(last.calls[j].path) < Len(last.calls[k].path)
    /\ \A a \in Created :
          /\ datasets[a] = "placeholder"
          /\ Len(a) > 1 => (pre[Parent(a)] # "absent" \/ Parent(a) \in Created)
    /\ \A a \in Ancestors(Target) : a \notin Created => datasets[a] = pre[a]

\* C4 as stated: every Receive into a mapped target creates exactly the strict
\* ancestors that did not exist.
C4_Original ==
    ReceiveMapped => (Created = Missing /\ CreatedRootFirst /\ OnlyChainTouched)

\* C4 amended: a Receive into a mapped target creates, root-first, only strict
\* ancestors that did not exist, never the target and nothing off the chain; it
\* creates all of them when the repair ends without error (the backend receive
\* is invoked), and when a creation fails exactly those above the failing one.
C4_PlaceholdersAreMissingAncestors ==
    ReceiveMapped =>
        /\ CreatedRootFirst
        /\ OnlyChainTouched
        /\ Created \subseteq Missing
        /\ \A a \in Created, b \in Missing : Len(b) < Len(a) => b \in Created
        /\ RecvInvoked => Created = Missing
        /\ ~RecvInvoked =>
              /\ last.err = ErrBackend
              /\ NCalls \in CreateAttempts
              /\ ~last.calls[NCalls].ok
              /\ Created = {b \in Missing : Len(b) < Len(last.calls[NCalls].path)}

\* Parent and grandparent of the target are missing and get created; the
\* grandparent's sibling exists and is not touched.
C4_Witness ==
    /\ ReceiveMapped
    /\ Len(Target) = 4
    /\ Created = {Parent(Target), Parent(Parent(Target))}
    /\ pre[Side] = "real" /\ datasets[Side] = "real"
    /\ Parent(Side) = Parent(Parent(Parent(Target)))
    /\ last.err = Nil

\* C5 as stated: an ancestor probe that fails for another reason than the
\* dataset not existing ends the walk at once and fails the Receive: no
\* placeholder creation at that ancestor or deeper, no backend receive.
C5_Original ==
    ReceiveMapped =>
        \A k \in AncestorProbes :
            (~last.calls[k].ok /\ last.calls[k].fault) =>
                /\ last.err # Nil
                /\ ~RecvInvoked
                /\ \A j \in (AncestorProbes \cup CreateAttempts) :
                      j > k => (last.calls[j].fn # "ZFSGet" /\ ~last.calls[j].ok)

\* C5 amended: every failed probe of an ancestor, whatever the reason, is
\* followed by an attempt to create a placeholder there; only a failed creation
\* ends the walk, and then it is the Receive error, nothing deeper is probed or
\* created and the backend receive is not invoked; after a successful creation
\* the walk goes on with the next path towards the target.
C5_ProbeFailureMeansCreate ==
    ReceiveMapped =>
        /\ \A k \in AncestorProbes :
              ~last.calls[k].ok =>
                  /\ k + 1 \in CreateAttempts
                  /\ last.calls[k + 1].path = last.calls[k].path
        /\ \A k \in CreateAttempts :
              /\ k - 1 \in AncestorProbes
              /\ ~last.calls[k - 1].ok
              /\ ~last.calls[k].ok =>
                    (k = NCalls /\ last.err = ErrBackend /\ ~RecvInvoked /\ last.res = NilRes)
              /\ last.calls[k].ok =>
                    /\ k < NCalls
                    /\ last.calls[k + 1].fn = "ZFSGet"
                    /\ last.calls[k + 1].path = SubSeq(Target, 1, Len(last.calls[k].path) + 1)

\* A probe of a missing ancestor fails for another reason, the placeholder is
\* created all the same and the receive goes through.
C5_Witness ==
    /\ ReceiveMapped
    /\ \E k \in AncestorProbes :
          /\ last.calls[k].fault
          /\ pre[last.calls[k].path] = "absent"
          /\ last.calls[k + 1].ok
    /\ RecvInvoked
    /\ last.err = Nil

\* The paths strictly below a.
Below(a) == {p \in LocalPaths : IsPrefix(a, p) /\ p # a}

\* C6 as stated: the walk probes nothing and creates nothing below an ancestor
\* confirmed to exist.
C6_Original ==
    ReceiveMapped =>
        \A k \in AncestorProbes :
            last.calls[k].ok =>
                \A j \in (AncestorProbes \cup CreateAttempts) :
                    j > k => last.calls[j].path \notin Below(last.calls[k].path)

\* C6 amended: an ancestor confirmed to exist is itself left as it is (no
\* creation is attempted on it and it does not change), and the walk goes on
\* with its child on the path to the target, which is probed next.
C6_ExistingLeftAsIsWalkDescends ==
    ReceiveMapped =>
        \A k \in AncestorProbes :
            last.calls[k].ok =>
                /\ last.calls[k].path \notin {last.calls[j].path : j \in CreateAttempts}
                /\ datasets[last.calls[k].path] = pre[last.calls[k].path]
                /\ pre[last.calls[k].path] # "absent"
                /\ k < NCalls
                /\ last.calls[k + 1].fn = "ZFSGet"
                /\ last.calls[k + 1].path = SubSeq(Target, 1, Len(last.calls[k].path) + 1)

\* The pool exists, its child on the path does not and is created.
C6_Witness ==
    /\ ReceiveMapped
    /\ Len(Target) >= 3
    /\ \E k \in AncestorProbes :
          /\ last.calls[k].ok
          /\ last.calls[k].path = LocalRoot
          /\ last.calls[k + 2].fn = "ZFSCreatePlaceholderFilesystem"
          /\ last.calls[k + 2].ok

\* C9: every Receive closes the stream it was given exactly once.
C9_StreamClosedOnce ==
    last.op = "Receive" => (last.given /\ last.closes = 1)

\* A Receive that fails because a placeholder cannot be created.
C9_Witness ==
    /\ ReceiveMapped
    /\ ~RecvInvoked
    /\ last.err = ErrBackend
    /\ last.closes = 1

----------------------------------------------------------------------------
(* Properties of the dispatcher *)

\* The bound Endpoint lacks the capability the call needs.
CapabilityMissing ==
    /\ last.op = "Handle"
    /\ \/ last.rpc \in {RPCSend, RPCSnapshotReplicationStatus} /\ ep # "Sender"
       \/ last.rpc = RPCReceive /\ ep # "Receiver"

\* What the caller of Handle gets back.
Response == <<last.res, last.stream, last.err>>
NoHandlerResponse == <<NilRes, NoStream, ErrNoHandler>>

\* C10: a call whose capability the bound Endpoint lacks invokes no Endpoint
\* method, touches no backend state, and is answered exactly as a call with an
\* unknown name is.
C10_NoCapabilityLooksUnknown ==
    /\ CapabilityMissing =>
          /\ last.invoked = <<>>
          /\ last.calls = <<>>
          /\ last.closes = 0
          /\ datasets = pre
          /\ Response = NoHandlerResponse
    /\ (last.op = "Handle" /\ last.rpc \notin RPCNames) =>
          (last.invoked = <<>> /\ Response = NoHandlerResponse)

\* A Receive sent to a dispatcher bound to a sending endpoint.
C10_Witness ==
    /\ CapabilityMissing
    /\ ep = "Sender"
    /\ last.rpc = RPCReceive
    /\ last.given
    /\ last.err = ErrNoHandler

\* C11: Handle returns a response stream exactly when the call is a Send that
\* succeeded; every success carries a payload, and every error return carries
\* neither a payload nor a stream.
C11_StreamIffSendSucceeded ==
    last.op = "Handle" =>
        /\ (last.stream # NoStream) <=> (last.rpc = RPCSend /\ last.err = Nil)
        /\ last.err = Nil => last.res # NilRes
        /\ last.err # Nil => (last.res = NilRes /\ last.stream = NoStream)
        /\ last.rpc \notin RPCNames => last.err = ErrNoHandler

\* A Send that succeeded: its response has the payload and the stream of the
\* Endpoint's Send.
C11_Witness ==
    /\ last.op = "Handle" /\ last.rpc = RPCSend /\ last.err = Nil
    /\ last.res # NilRes
    /\ last.stream = "sendStream"

\* The last call was a stub call that got a reply.
RemoteOps == {"Remote.ListFilesystems", "Remote.ListFilesystemVersions", "Remote.Send",
              "Remote.Receive", "Remote.DestroySnapshots"}
Replied == last.op \in RemoteOps /\ Len(last.requests) = 1 /\ last.reply.err = Nil
\* The reply's stream shape does not match the call kind.
ShapeMismatch ==
    IF last.op = "Remote.Send" THEN last.reply.stream = NoStream
    ELSE last.reply.stream # NoStream

\* C12: a stub call whose reply has the wrong stream shape fails with the
\* protocol error of its kind, returns no result and no stream, closes the
\* unexpected stream once, and has made exactly one request.
C12_StreamShapeMismatchFails ==
    /\ last.op \in RemoteOps => Len(last.requests) <= 1
    /\ (Replied /\ ShapeMismatch) =>
          /\ last.err = (IF last.op = "Remote.Send" THEN ErrMissingStream
                         ELSE ErrUnexpectedStream)
          /\ last.err \notin {ErrDecode, Nil}
          /\ last.res = NilRes
          /\ last.stream = NoStream
          /\ last.replyCloses = (IF last.reply.stream # NoStream THEN 1 ELSE 0)

\* A DestroySnapshots whose reply carries a stream and a payload that would decode.
C12_Witness ==
    /\ Replied /\ ShapeMismatch
    /\ last.op = "Remote.DestroySnapshots"
    /\ last.reply.decodeOk
    /\ last.replyCloses = 1
    /\ last.err = ErrUnexpectedStream

----------------------------------------------------------------------------
(* Properties of the gate *)

Admitted == {i \in Acquirers : acq[i].pc \in {"holding", "done"}}
Released == {i \in Acquirers : acq[i].pc = "done"}
Waited == {i \in Acquirers : acq[i].waited}
AllDone == \A i \in Acquirers : acq[i].pc = "done"

\* C13: in every state of every interleaving of Acquire, Release and
\* cancellation, at most N tickets are outstanding (and the free slots stay
\* within 0..N).
C13_AtMostNOutstanding ==
    /\ Outstanding <= Capacity
    /\ sem \in 0..Capacity

\* N tickets are out, an operation is blocked, and a released ticket was
\* released a second time.
C13_Witness ==
    /\ Outstanding = Capacity
    /\ \E i \in Acquirers : acq[i].pc = "waiting"
    /\ \E i \in Acquirers : acq[i].releases = 2

\* C14: of M goroutines that acquire together and hold for sleepTime, N are
\* admitted without blocking before any ticket is released, and each of the
\* other M-N is admitted only after a release; the test counts N admissions
\* before sleepTime and M-N after.
C14_NFirstOthersAfterRelease ==
    /\ Released # {} => Cardinality(Admitted) >= Capacity
    /\ Cardinality(Admitted) <= Capacity + Cardinality(Released)
    /\ Cardinality(Waited) <= NumAcquirers - Capacity
    /\ \A i \in Admitted :
          /\ ~acq[i].waited => acq[i].at = 0
          /\ acq[i].waited => (acq[i].at > 0 /\ \E j \in Released : acq[j].at < acq[i].at)
    /\ \A i \in Acquirers : (acq[i].pc = "waiting" /\ SlotFree(sem)) => Released # {}
    /\ AllDone =>
          /\ Cardinality(Waited) = NumAcquirers - Capacity
          /\ acquisitions.beforeT = Capacity
          /\ acquisitions.afterT = NumAcquirers - Capacity

\* The test at its end, with its two assertions true.
C14_Witness ==
    /\ AllDone
    /\ acquisitions.beforeT = Capacity
    /\ acquisitions.afterT = NumAcquirers - Capacity
    /\ now > 0

\* C15: an Acquire whose context ends while it waits returns the cancellation
\* error and no ticket - it can only stay blocked or fail, and failing takes
\* no slot - so the free slots are always the capacity less the tickets
\* outstanding, whatever Acquires were cancelled.
C15_CancelledAcquireTakesNothing ==
    /\ [](/\ sem + Outstanding = Capacity
          /\ \A i \in Acquirers :
                acq[i].pc = "cancelled" => (acq[i].ctxDone /\ acq[i].releases = 0))
    /\ [][\A i \in Acquirers :
             (acq[i].pc = "waiting" /\ acq[i].ctxDone) =>
                 /\ acq'[i].pc \in {"waiting", "cancelled"}
                 /\ acq'[i].pc = "cancelled" => sem' = sem]_vars

\* A cancelled Acquire returned while every slot was taken.
C15_Witness ==
    /\ \E i \in Acquirers : acq[i].pc = "cancelled"
    /\ Outstanding = Capacity
    /\ sem = 0

\* C20: with no context cancelled and every admitted operation releasing,
\* every operation is eventually admitted and finishes.
C20_EveryAcquireReturns ==
    /\ <>[]AllDone
    /\ [](\A i \in Acquirers : acq[i].pc # "cancelled" /\ ~acq[i].ctxDone)

\* All operations finished, M-N of them after having been blocked.
C20_Witness ==
    /\ AllDone
    /\ Cardinality(Waited) = NumAcquirers - Capacity

----------------------------------------------------------------------------
(* Properties of the replicated marker *)

\* The snapshot the last call was about.
MarkerKey == <<last.req.fs, last.req.snapshot>>
StatusCall == last.op = "SnapshotReplicationStatus" /\ SenderPermitted

\* C16: on a permitted filesystem a Get answers the current marker and leaves
\* it; a successful Set-Replicated writes it to true and answers true; any other
\* opcode fails and leaves it; and no call of the sending endpoint takes a
\* marker away, so a Get after a successful Set answers true.
C16_MarkerGetSetOnly ==
    /\ [](StatusCall =>
            /\ (last.req.opcode = "Get" /\ last.err = Nil) =>
                  last.res = <<[Replicated |-> MarkerKey \in replicated]>>
            /\ (last.req.opcode = "SetReplicated" /\ last.err = Nil) =>
                  (last.res = <<[Replicated |-> TRUE]>> /\ MarkerKey \in replicated)
            /\ last.req.opcode \notin {"Get", "SetReplicated"} =>
                  (last.err = ErrOpcode /\ last.res = NilRes /\ last.calls = <<>>))
    /\ [][/\ replicated \subseteq replicated'
          /\ replicated' # replicated =>
                /\ StatusCall'
                /\ last'.req.opcode = "SetReplicated"
                /\ last'.err = Nil
                /\ replicated' = replicated \cup {MarkerKey'}]_vars

\* A Get that answers true: the marker was set by an earlier call.
C16_Witness ==
    /\ StatusCall
    /\ last.req.opcode = "Get"
    /\ last.err = Nil
    /\ last.res = <<[Replicated |-> TRUE]>>

----------------------------------------------------------------------------
(* Properties of concurrent Receive calls *)

\* Task k started the backend receive with the force directive.
StartedForced(k) == tasks[k].startState # "none" /\ tasks[k].force

\* C17 as stated: under every interleaving of two Receive calls, the backend
\* receive is never started with the force directive on a target that holds
\* real data at that moment.
C17_Original ==
    \A k \in Tasks : StartedForced(k) => tasks[k].startState # "real"

\* C17 amended: the force directive is used only when the call's own read of
\* the target found the placeholder marker; for calls on different targets (a
\* target and a descendant whose walk creates it) the backend receive is never
\* started with the force directive on real data; two calls on the same target
\* are not kept apart by the endpoint.
C17_ForceSafeOnDifferentTargets ==
    \A k \in Tasks :
        StartedForced(k) =>
            /\ tasks[k].seen = "placeholder"
            /\ (\A j \in Tasks \ {k} : tasks[j].lp # tasks[k].lp) =>
                  tasks[k].startState = "placeholder"

\* A forced receive into a target that the walk of a call on its descendant
\* created as a placeholder.
C17_Witness ==
    \E k, j \in Tasks :
        /\ tasks[k].lp = Chain(2) /\ tasks[j].lp = Chain(3)
        /\ pre[Chain(2)] = "absent"
        /\ StartedForced(k)
        /\ tasks[k].startState = "placeholder"

----------------------------------------------------------------------------
(* Properties of the dispatcher's handling of streams *)

\* The request's stream does not fit the call: a stream with a call that takes
\* none, or no stream with Receive.
RequestStreamMismatch ==
    /\ last.op = "Handle"
    /\ last.rpc \in RPCNames
    /\ last.given # (last.rpc = RPCReceive)

\* C18: a request whose stream is present when the call takes none, or absent
\* when the call is Receive, is answered with an error and the bound Endpoint's
\* method is not invoked.
C18_RequestStreamMismatchFatal ==
    RequestStreamMismatch => last.err # Nil /\ last.invoked = <<>>

\* C19: on every exit path of Handle a request stream that was given is closed
\* (by Handle or by the Endpoint's Receive), and a stream the Endpoint's Send
\* returned is returned as the response stream or closed.
C19_NoStreamLeaked ==
    last.op = "Handle" =>
        /\ last.given => last.closes = 1
        /\ last.epStream # NoStream =>
              last.stream = last.epStream \/ last.epCloses = 1

====
